---- MODULE Spec2Model ----
(***************************************************************************)
(* Dispensing and inventory adjustment of the pharmacy management          *)
(* application.                                                            *)
(*                                                                         *)
(* The persisted tables (Product, Prescription, PrescriptionItem,          *)
(* DrugDispensal, BalanceTransaction) are the state.  A dispense request   *)
(* runs inside prisma.$transaction without an isolation level and without  *)
(* row locks on its reads; the store is PostgreSQL (the queries use        *)
(* mode: 'insensitive'), whose default isolation is READ COMMITTED.  A     *)
(* dispensing transaction is therefore two steps: the read of the          *)
(* prescription with its items and products together with the checks made  *)
(* on that snapshot (DispenseRead), and the writes, which become visible   *)
(* together at commit and apply relative updates (decrement) to the        *)
(* committed rows of that moment (DispenseCommit).  Steps of different     *)
(* requests interleave.                                                    *)
(***************************************************************************)
EXTENDS Integers, Sequences, FiniteSets, TLC

\* ---------------------------------------------------------------- bounds
MaxQuantity == 4       \* largest quantity a request asks to dispense
MaxStock == 5          \* quantity on hand of a restocked product
MaxListedQuantity == 12   \* largest quantity on hand of a listed product
MaxReorderLevel == 11     \* largest reorder level of a listed product
MaxTicks == 2             \* advances of the clock in a run
MaxDrugs == 3             \* rows the Drug table can hold
MaxPage == 2              \* largest page a list request asks for
MaxLimit == 2             \* largest page size a list request asks for

\* ------------------------------------------------------------ identifiers
Clients == {"c1", "c2"}

\* pC is soft-deleted from the start; pX is the id of no row
ProductIds == {"pA", "pB", "pC"}
DeletedProductId == "pC"
MissingProductId == "pX"

\* rx3 is soft-deleted from the start; rx0 is the id of no row
PrescriptionIds == {"rx1", "rx2", "rx3"}
MissingPrescriptionId == "rx0"

ItemIds == {"i1", "i2", "i3"}
MissingItemId == "iX"

StudentIds == {"s1", "s2"}

NoId == "none"

\* an unset DateTime? column, and the value new Date() stores
NoDate == "unset"
Now == "now"

\* The prescriptions on file: rx1 prescribes 3 of pA (i1) and 2 of pB (i2),
\* rx2 prescribes 3 of pA (i3).
ItemPrescription(i) == IF i = "i3" THEN "rx2" ELSE "rx1"
ItemProduct(i) == IF i = "i2" THEN "pB" ELSE "pA"
QuantityPrescribed(i) == IF i = "i2" THEN 2 ELSE 3

\* rx2 belongs to student s2, the other prescriptions to s1
PrescriptionStudent(r) == IF r = "rx2" THEN "s2" ELSE "s1"

\* --------------------------------------------------------- request inputs
RequestPrescriptionIds == PrescriptionIds \cup {MissingPrescriptionId}

RequestProductIds == ProductIds \cup {MissingProductId}

Item(i, p, q) == [itemId |-> i, productId |-> p, quantityDispensed |-> q]

\* The entry the dispense page builds for an item: the item's own product and
\* the prescribed quantity.
PageItem(i) == Item(i, ItemProduct(i), QuantityPrescribed(i))

\* A run serves one population of requests.  "page": what the dispense page
\* sends, plus restocking; "adjust": stock corrections around single-item
\* dispenses; "items": item lists the page never sends (none, repeated,
\* foreign, unknown); "forged": product ids and quantities the page never
\* sends; "payment": amounts paid the page never sends (nothing, less than the
\* total, a negative amount); "shelf": adjustments addressed to the
\* soft-deleted product; "receipt": page requests while the clock advances.
Workloads == {"page", "adjust", "items", "forged", "payment", "shelf", "receipt"}

DispensedItemLists(w) ==
    CASE w = "page"   -> {<<PageItem("i1"), PageItem("i2")>>, <<PageItem("i1")>>,
                          <<PageItem("i2")>>, <<PageItem("i3")>>}
      [] w = "adjust" -> {<<PageItem("i1")>>, <<PageItem("i3")>>}
      [] w = "items"  -> {<< >>,
                          <<PageItem("i1"), PageItem("i1")>>,
                          <<PageItem("i1"), PageItem("i3")>>,
                          <<PageItem("i3"), PageItem("i1")>>,
                          <<PageItem("i2"), Item(MissingItemId, "pA", 1)>>,
                          <<Item(MissingItemId, "pA", 1), PageItem("i2")>>}
      [] w = "forged" -> {<<Item("i1", "pB", 3)>>,
                          <<Item("i1", "pA", 1), Item("i2", MissingProductId, 1)>>,
                          <<Item("i1", "pA", MaxQuantity)>>,
                          <<Item("i3", "pA", -1)>>,
                          <<Item("i1", "pA", 3), Item("i2", "pA", 3)>>}
      [] w = "payment" -> {<<PageItem("i1")>>, <<PageItem("i3")>>}
      [] w = "shelf"  -> {<<PageItem("i3")>>}
      [] w = "receipt" -> {<<PageItem("i1"), PageItem("i2")>>, <<PageItem("i3")>>}

AmountsPaid(w) ==
    CASE w = "forged"  -> {0, 5}
      [] w = "payment" -> {-1, 0, 2, 3}
      [] OTHER         -> {5}

TotalAmounts == {3}

AdjustQuantities(w) ==
    CASE w = "page"   -> {MaxStock}
      [] w = "adjust" -> {-1, 0, MaxStock}
      [] w = "shelf"  -> {0, MaxStock}
      [] OTHER        -> {}

\* the product ids the adjustments of a run address
AdjustProductIds(w) ==
    IF w = "shelf" THEN {DeletedProductId, MissingProductId}
    ELSE RequestProductIds \ {DeletedProductId}

DispenseBodies(w) ==
    [dispensedItems : DispensedItemLists(w),
     totalAmount : TotalAmounts,
     amountPaid : AmountsPaid(w)]

\* ------------------------------------------------------------------ state
VARIABLES
    product,             \* Product table: id -> row
    prescription,        \* Prescription table: id -> row
    prescriptionItem,    \* PrescriptionItem table: id -> row
    drugDispensal,       \* DrugDispensal table, in creation order
    balanceTransaction,  \* BalanceTransaction table, in creation order
    tx,                  \* per client: the dispensing transaction in flight
    request,             \* the dispense request most recently worked on
    response,            \* the response most recently returned
    workload,            \* the population of requests of this run
    listing,             \* the product row the stock views format, and their output
    now,                 \* the server's clock
    drug,                \* Drug table, in creation order: the id of a row is its position
    drugTx,              \* per client: the /drugs request in flight
    drugResponse,        \* the /drugs response most recently returned
    view                 \* the result a read endpoint most recently returned

vars == <<product, prescription, prescriptionItem, drugDispensal, balanceTransaction,
          tx, request, response, workload, listing, now,
          drug, drugTx, drugResponse, view>>

db == <<product, prescription, prescriptionItem, drugDispensal, balanceTransaction>>

catalog == <<drug, drugTx, drugResponse>>

pharmacy == <<db, tx, request, response, listing, now, view>>

\* body is NoBody where the handler fails before it looks at the body
NoBody == [dispensedItems |-> << >>, totalAmount |-> 0, amountPaid |-> 0]

NoRequest == [client |-> NoId, prescriptionId |-> NoId, body |-> NoBody]

IdleTx == [pc |-> "idle", prescriptionId |-> NoId, body |-> NoBody]

NoResponse ==
    [op |-> "none", status |-> 0,
     error |-> "none", itemId |-> NoId, productId |-> NoId,
     available |-> 0, required |-> 0, change |-> 0,
     oldQuantity |-> 0, newQuantity |-> 0, difference |-> 0]

\* toString().slice(-6) keeps the last six decimal digits: the value modulo 10^6
Million == 1000000

StartYear == 2026

\* The clock: the calendar year and the epoch milliseconds, counted from the
\* last multiple of 10^6 before the run; ticks counts its advances.
StartOfRun == [year |-> StartYear, millis |-> 0, ticks |-> 0]

\* the clock advances by a millisecond or by just under 10^6 of them
TickSteps == {1, Million - 1}

\* reorderLevel is an optional column: << >> when null, <<n>> when n
NoLevel == << >>

ReorderLevels == {NoLevel} \cup {<<n>> : n \in 0 .. MaxReorderLevel}

\* quantities on hand; dispensing and adjustment can leave a negative quantity
ListedQuantities == (0 - 2) .. MaxListedQuantity

\* a stock percentage, kept exact as the fraction num / den
Fraction(num, den) == [num |-> num, den |-> den]

NoListing ==
    [quantity |-> 0, reorderLevel |-> NoLevel,
     formatted |-> FALSE, stockStatus |-> "none", stockPercentage |-> Fraction(0, 1),
     alerted |-> FALSE, lowStock |-> FALSE, alertLevel |-> 0]

\* the items on file, no dispensal, no payment, no request in flight
InitRequests ==
    /\ prescriptionItem =
          [i \in ItemIds |->
              [prescriptionId |-> ItemPrescription(i),
               productId |-> ItemProduct(i),
               quantityPrescribed |-> QuantityPrescribed(i),
               quantityDispensed |-> 0,
               isDispensed |-> FALSE]]
    /\ drugDispensal = << >>
    /\ balanceTransaction = << >>
    /\ tx = [c \in Clients |-> IdleTx]
    /\ request = NoRequest
    /\ response = NoResponse

\* expiryDate is an optional column: << >> when null, <<d>> when the product
\* expires d days after the start of the run
NoExpiry == << >>

Priorities == {"emergency", "urgent", "normal"}

NoView == [op |-> "none", status |-> 0, query |-> << >>, rows |-> << >>, total |-> 0,
           lowStock |-> << >>, items |-> {}]

\* The products on file: pA reorders at 2 and expires in 20 days, pB has
\* neither a reorder level nor an expiry date, pC is soft-deleted.
ProductsOnFile ==
    [p \in ProductIds |->
        [quantity |-> IF p = "pA" THEN 5 ELSE IF p = "pB" THEN 1 ELSE 2,
         isDeleted |-> (p = DeletedProductId),
         reorderLevel |-> IF p = "pA" THEN <<2>> ELSE IF p = "pB" THEN NoLevel ELSE <<0>>,
         expiryDate |-> IF p = "pA" THEN <<20>> ELSE IF p = "pB" THEN NoExpiry ELSE <<400>>]]

\* The prescriptions on file: rx1 is normal and the oldest, rx2 urgent, rx3
\* an emergency and soft-deleted.
PrescriptionsOnFile ==
    [r \in PrescriptionIds |->
        [status |-> "pending",
         isDeleted |-> (r = "rx3"),
         studentId |-> PrescriptionStudent(r),
         priority |-> IF r = "rx1" THEN "normal" ELSE IF r = "rx2" THEN "urgent" ELSE "emergency",
         createdAt |-> IF r = "rx1" THEN 1 ELSE IF r = "rx2" THEN 2 ELSE 3,
         isDispensed |-> FALSE,
         dispensedAt |-> NoDate,
         dispensedBy |-> NoId,
         amountPaid |-> 0]]

InitTables ==
    /\ product = ProductsOnFile
    /\ prescription = PrescriptionsOnFile
    /\ InitRequests

\* ------------------------------------------------------- /drugs: inputs
Codes == {"X1", "X2"}

\* ids addressed by PUT and DELETE; 0 is the id of no row
DrugIds == 0 .. MaxDrugs

\* an optional field of a request body: << >> when absent, <<v>> when sent
Absent == << >>

\* unit and prescriptionRequired as a POST body carries them
DrugOptions(w) ==
    IF w = "defaults"
    THEN {[unit |-> Absent, prescriptionRequired |-> Absent],
          [unit |-> <<"">>, prescriptionRequired |-> <<FALSE>>],
          [unit |-> <<"Box">>, prescriptionRequired |-> <<TRUE>>]}
    ELSE {[unit |-> Absent, prescriptionRequired |-> Absent]}

\* "catalog": POST, PUT, DELETE and GET with the optional fields left out;
\* "defaults": POST and GET with the optional fields absent, empty or set.
DrugWorkloads == {"catalog", "defaults"}

NoDrugBody == [drugId |-> 0, code |-> "none", unit |-> Absent, prescriptionRequired |-> Absent]

IdleDrugTx == [pc |-> "idle", body |-> NoDrugBody]

NoDrugResponse == [client |-> NoId, op |-> "none", status |-> 0, body |-> NoDrugBody, drugs |-> << >>]

InitCatalog ==
    /\ drug = << >>
    /\ drugTx = [c \in Clients |-> IdleDrugTx]
    /\ drugResponse = NoDrugResponse

Init ==
    /\ workload \in Workloads
    /\ InitTables
    /\ listing = NoListing
    /\ now = StartOfRun
    /\ InitCatalog
    /\ view = NoView

\* ------------------------------------------------------- dispense: read
\* tx.prescription.findUnique({where: {id, isDeleted: false}})
FindPrescription(prescriptionId) ==
    IF prescriptionId \in PrescriptionIds /\ ~prescription[prescriptionId].isDeleted
    THEN prescriptionId
    ELSE NoId

\* include: { prescriptionItems: ... }
PrescriptionItemsOf(prescriptionId) ==
    {i \in ItemIds : prescriptionItem[i].prescriptionId = prescriptionId}

NoError == [error |-> "none", itemId |-> NoId, productId |-> NoId, available |-> 0, required |-> 0]

\* VerifyStock, checking the stock of the first requested item only.
RECURSIVE VerifyStock_FirstOnly(_, _, _)
VerifyStock_FirstOnly(prescriptionId, dispensedItems, k) ==
    IF k > Len(dispensedItems) THEN NoError
    ELSE LET dispensedItem == dispensedItems[k]
         IN  IF dispensedItem.itemId \notin PrescriptionItemsOf(prescriptionId)
             THEN [NoError EXCEPT !.error = "Prescription item not found",
                                  !.itemId = dispensedItem.itemId]
             ELSE LET productId == prescriptionItem[dispensedItem.itemId].productId
                  IN  IF k = 1 /\ product[productId].quantity < dispensedItem.quantityDispensed
                      THEN [error |-> "Insufficient stock",
                            itemId |-> dispensedItem.itemId,
                            productId |-> productId,
                            available |-> product[productId].quantity,
                            required |-> dispensedItem.quantityDispensed]
                      ELSE VerifyStock_FirstOnly(prescriptionId, dispensedItems, k + 1)

\* VerifyStock, looking the item up among all items instead of the
\* prescription's own.
RECURSIVE VerifyStock_AnyItem(_, _, _)
VerifyStock_AnyItem(prescriptionId, dispensedItems, k) ==
    IF k > Len(dispensedItems) THEN NoError
    ELSE LET dispensedItem == dispensedItems[k]
         IN  IF dispensedItem.itemId \notin ItemIds
             THEN [NoError EXCEPT !.error = "Prescription item not found",
                                  !.itemId = dispensedItem.itemId]
             ELSE LET productId == prescriptionItem[dispensedItem.itemId].productId
                  IN  IF product[productId].quantity < dispensedItem.quantityDispensed
                      THEN [error |-> "Insufficient stock",
                            itemId |-> dispensedItem.itemId,
                            productId |-> productId,
                            available |-> product[productId].quantity,
                            required |-> dispensedItem.quantityDispensed]
                      ELSE VerifyStock_AnyItem(prescriptionId, dispensedItems, k + 1)

\* Step 2 of the transaction: the loop over dispensedItems from position k;
\* the first item that fails a check decides the error thrown.
RECURSIVE VerifyStock(_, _, _)
VerifyStock(prescriptionId, dispensedItems, k) ==
    IF k > Len(dispensedItems) THEN NoError
    ELSE LET dispensedItem == dispensedItems[k]
         IN  IF dispensedItem.itemId \notin PrescriptionItemsOf(prescriptionId)
             THEN [NoError EXCEPT !.error = "Prescription item not found",
                                  !.itemId = dispensedItem.itemId]
             ELSE LET productId == prescriptionItem[dispensedItem.itemId].productId
                  IN  IF product[productId].quantity < dispensedItem.quantityDispensed
                      THEN [error |-> "Insufficient stock",
                            itemId |-> dispensedItem.itemId,
                            productId |-> productId,
                            available |-> product[productId].quantity,
                            required |-> dispensedItem.quantityDispensed]
                      ELSE VerifyStock(prescriptionId, dispensedItems, k + 1)

\* catch (error): every thrown error is answered with status 500 and its message
ErrorResponse(err) ==
    [NoResponse EXCEPT !.op = "dispense", !.status = 500,
                       !.error = err.error, !.itemId = err.itemId,
                       !.productId = err.productId,
                       !.available = err.available, !.required = err.required]

Thrown(message) == ErrorResponse([NoError EXCEPT !.error = message])

\* Step 1: only a prescription whose status is 'pending' passes.
IsPending(status) == status = "pending"

DispenseRead(c) ==
    /\ tx[c].pc = "idle"
    /\ \E prescriptionId \in RequestPrescriptionIds :
          IF FindPrescription(prescriptionId) = NoId
          THEN /\ request' = [client |-> c, prescriptionId |-> prescriptionId, body |-> NoBody]
               /\ response' = Thrown("Prescription not found")
               /\ UNCHANGED <<db, tx, workload, listing, now, catalog, view>>
          ELSE IF ~IsPending(prescription[prescriptionId].status)
          THEN /\ request' = [client |-> c, prescriptionId |-> prescriptionId, body |-> NoBody]
               /\ response' = Thrown("Prescription is not in pending status")
               /\ UNCHANGED <<db, tx, workload, listing, now, catalog, view>>
          ELSE \E body \in DispenseBodies(workload) :
                 LET err == VerifyStock(prescriptionId, body.dispensedItems, 1)
                 IN  /\ request' = [client |-> c, prescriptionId |-> prescriptionId, body |-> body]
                     /\ IF err.error # "none"
                        THEN /\ response' = ErrorResponse(err)
                             /\ UNCHANGED <<db, tx, workload, listing, now, catalog, view>>
                        ELSE /\ tx' = [tx EXCEPT ![c] = [pc |-> "checked",
                                                         prescriptionId |-> prescriptionId,
                                                         body |-> body]]
                             /\ UNCHANGED <<db, response, workload, listing, now, catalog, view>>

\* ----------------------------------------------------- dispense: writes
\* Step 4: mark the items named by the request, from position k.
RECURSIVE UpdateItems(_, _, _)
UpdateItems(items, dispensedItems, k) ==
    IF k > Len(dispensedItems) THEN items
    ELSE LET dispensedItem == dispensedItems[k]
         IN  UpdateItems([items EXCEPT ![dispensedItem.itemId].quantityDispensed =
                                            dispensedItem.quantityDispensed,
                                       ![dispensedItem.itemId].isDispensed = TRUE],
                         dispensedItems, k + 1)

\* Step 5: decrement the products named by the request, from position k.
RECURSIVE DeductInventory(_, _, _)
DeductInventory(products, dispensedItems, k) ==
    IF k > Len(dispensedItems) THEN products
    ELSE LET dispensedItem == dispensedItems[k]
         IN  DeductInventory([products EXCEPT ![dispensedItem.productId].quantity =
                                                  @ - dispensedItem.quantityDispensed],
                             dispensedItems, k + 1)

\* tx.product.update throws when no row has the id: the position of the first
\* such item, 0 when every update finds its row.
FailingUpdate(dispensedItems) ==
    LET failing == {k \in 1 .. Len(dispensedItems) :
                        dispensedItems[k].productId \notin ProductIds}
    IN  IF failing = {} THEN 0
        ELSE CHOOSE k \in failing : \A j \in failing : k <= j

\* DISP-{year}-{last six digits of the epoch milliseconds}
GenerateDispensalNo(date) == <<"DISP", date.year, date.millis % Million>>

\* Step 3: the dispensal record of a request, created before any other write.
\* The mutant below records the first requested item only.
NewDispensal_FirstItem(prescriptionId, dispensedBy, body) ==
    [dispensalNo |-> GenerateDispensalNo(now),
     prescriptionId |-> prescriptionId,
     studentId |-> prescription[prescriptionId].studentId,
     dispensedBy |-> dispensedBy,
     dispensedItems |-> IF body.dispensedItems = << >> THEN << >>
                        ELSE <<body.dispensedItems[1]>>,
     totalAmount |-> body.totalAmount]

NewDispensal(prescriptionId, dispensedBy, body) ==
    [dispensalNo |-> GenerateDispensalNo(now),
     prescriptionId |-> prescriptionId,
     studentId |-> prescription[prescriptionId].studentId,
     dispensedBy |-> dispensedBy,
     dispensedItems |-> body.dispensedItems,
     totalAmount |-> body.totalAmount]

\* The writes made before position k threw, had they been made outside a
\* transaction.
WritesBefore(prescriptionId, body, k) ==
    LET done == SubSeq(body.dispensedItems, 1, k - 1)
        withItem == SubSeq(body.dispensedItems, 1, k)
    IN  [dispensal |-> Append(drugDispensal, NewDispensal(prescriptionId, NoId, body)),
         items |-> UpdateItems(prescriptionItem, withItem, 1),
         products |-> DeductInventory(product, done, 1)]

AbortedWrites_NoRollback(prescriptionId, body, k) == WritesBefore(prescriptionId, body, k)

\* prisma.$transaction: an error thrown inside the callback rolls back every
\* write made through tx.
AbortedWrites(prescriptionId, body, k) ==
    [dispensal |-> drugDispensal, items |-> prescriptionItem, products |-> product]

AllItemsDispensed(prescriptionId, dispensedItems) ==
    Len(dispensedItems) = Cardinality(PrescriptionItemsOf(prescriptionId))

\* Stamp, writing the value after a partial dispense as well.
Stamp_Always(allItemsDispensed, old, new) == new

\* dispensedAt / dispensedBy of the prescription update: the new value when all
\* items were dispensed, undefined (the column is left alone) otherwise.
Stamp(allItemsDispensed, old, new) == IF allItemsDispensed THEN new ELSE old

\* RecordsPayment, recording a payment of nothing as well.
RecordsPayment_Zero(amountPaid) == amountPaid >= 0

\* Step 7: a balance transaction is created if (amountPaid > 0).
RecordsPayment(amountPaid) == amountPaid > 0

\* change of the success response: amountPaid - totalAmount
Change(amountPaid, totalAmount) == amountPaid - totalAmount

DispenseCommit(c) ==
    /\ tx[c].pc = "checked"
    /\ LET prescriptionId == tx[c].prescriptionId
           body == tx[c].body
           dispensedItems == body.dispensedItems
           allItemsDispensed == AllItemsDispensed(prescriptionId, dispensedItems)
           failing == FailingUpdate(dispensedItems)
       IN  /\ request' = [client |-> c, prescriptionId |-> prescriptionId, body |-> body]
           /\ IF failing # 0
              THEN LET left == AbortedWrites(prescriptionId, body, failing)
                   IN  /\ response' = Thrown("Record to update not found")
                       /\ drugDispensal' = left.dispensal
                       /\ prescriptionItem' = left.items
                       /\ product' = left.products
                       /\ UNCHANGED <<prescription, balanceTransaction>>
              ELSE /\ drugDispensal' = Append(drugDispensal,
                                          NewDispensal(prescriptionId, c, body))
                   /\ prescriptionItem' = UpdateItems(prescriptionItem, dispensedItems, 1)
                   /\ product' = DeductInventory(product, dispensedItems, 1)
                   /\ prescription' =
                         [prescription EXCEPT
                             ![prescriptionId].status =
                                 IF allItemsDispensed THEN "dispensed" ELSE "partially_dispensed",
                             ![prescriptionId].isDispensed = allItemsDispensed,
                             ![prescriptionId].dispensedAt = Stamp(allItemsDispensed, @, Now),
                             ![prescriptionId].dispensedBy = Stamp(allItemsDispensed, @, c),
                             ![prescriptionId].amountPaid = body.amountPaid]
                   /\ balanceTransaction' =
                         IF RecordsPayment(body.amountPaid)
                         THEN Append(balanceTransaction,
                                     [studentId |-> prescription[prescriptionId].studentId,
                                      prescriptionId |-> prescriptionId,
                                      amount |-> body.amountPaid,
                                      type |-> "DEBIT"])
                         ELSE balanceTransaction
                   /\ response' =
                         [NoResponse EXCEPT !.op = "dispense", !.status = 200,
                                            !.change = Change(body.amountPaid, body.totalAmount)]
    /\ tx' = [tx EXCEPT ![c] = IdleTx]
    /\ UNCHANGED <<workload, listing, now, catalog, view>>

\* ------------------------------------------------- inventory adjustment
\* AdjustStock, adding the requested quantity to the quantity on hand.
AdjustStock_Increment ==
    \E productId \in AdjustProductIds(workload), quantity \in AdjustQuantities(workload) :
        IF productId \notin ProductIds
        THEN /\ response' = [NoResponse EXCEPT !.op = "adjust", !.status = 500,
                                               !.error = "Product not found"]
             /\ UNCHANGED <<db, tx, request, workload, listing, now, catalog, view>>
        ELSE /\ product' = [product EXCEPT ![productId].quantity = @ + quantity]
             /\ response' = [NoResponse EXCEPT !.op = "adjust", !.status = 200,
                                               !.productId = productId,
                                               !.oldQuantity = product[productId].quantity,
                                               !.newQuantity = quantity,
                                               !.difference = quantity - product[productId].quantity]
             /\ UNCHANGED <<prescription, prescriptionItem, drugDispensal,
                            balanceTransaction, tx, request, workload, listing, now, catalog, view>>

\* PATCH stock: one transaction that reads the product by its id (deleted or
\* not) and sets its quantity.
AdjustStock ==
    \E productId \in AdjustProductIds(workload), quantity \in AdjustQuantities(workload) :
        IF productId \notin ProductIds
        THEN /\ response' = [NoResponse EXCEPT !.op = "adjust", !.status = 500,
                                               !.error = "Product not found"]
             /\ UNCHANGED <<db, tx, request, workload, listing, now, catalog, view>>
        ELSE /\ product' = [product EXCEPT ![productId].quantity = quantity]
             /\ response' = [NoResponse EXCEPT !.op = "adjust", !.status = 200,
                                               !.productId = productId,
                                               !.oldQuantity = product[productId].quantity,
                                               !.newQuantity = quantity,
                                               !.difference = quantity - product[productId].quantity]
             /\ UNCHANGED <<prescription, prescriptionItem, drugDispensal,
                            balanceTransaction, tx, request, workload, listing, now, catalog, view>>

\* ----------------------------------------------------------------- clock
\* Time passes: some milliseconds, or the turn of the year.
Tick ==
    /\ workload = "receipt"
    /\ now.ticks < MaxTicks
    /\ \/ \E d \in TickSteps :
             now' = [now EXCEPT !.millis = @ + d, !.ticks = @ + 1]
       \/ now' = [year |-> now.year + 1, millis |-> now.millis + 1, ticks |-> now.ticks + 1]
    /\ UNCHANGED <<db, tx, request, response, workload, listing, catalog, view>>


\* ------------------------------------------------------------ stock views
\* x || 10 on an optional integer: null and 0 are both falsy
ReorderThreshold(reorderLevel) ==
    IF reorderLevel # NoLevel /\ reorderLevel[1] # 0 THEN reorderLevel[1] ELSE 10

\* Math.min((quantity / reorderThreshold) * 100, 100)
StockPercentage(quantity, reorderThreshold) ==
    IF quantity * 100 <= 100 * reorderThreshold
    THEN Fraction(quantity * 100, reorderThreshold)
    ELSE Fraction(100, 1)

StockStatus(quantity, reorderThreshold) ==
    IF quantity = 0 THEN "out_of_stock"
    ELSE IF quantity <= reorderThreshold THEN "low_stock"
    ELSE "healthy"

\* GET stock: the listing formats a product row it fetched.
FormatProduct ==
    /\ ~listing.formatted
    /\ LET reorderThreshold == ReorderThreshold(listing.reorderLevel)
       IN  listing' = [listing EXCEPT
                          !.formatted = TRUE,
                          !.stockPercentage = StockPercentage(listing.quantity, reorderThreshold),
                          !.stockStatus = StockStatus(listing.quantity, reorderThreshold)]
    /\ UNCHANGED <<db, tx, request, response, workload, now, catalog, view>>

\* GET dashboard: inventoryAlerts.lowStock keeps, of the products whose quantity
\* is above 0, those at or below their reorder threshold.
LowStockAlert ==
    /\ ~listing.alerted
    /\ listing' = [listing EXCEPT
                      !.alerted = TRUE,
                      !.lowStock = /\ listing.quantity > 0
                                   /\ listing.quantity <= ReorderThreshold(listing.reorderLevel),
                      !.alertLevel = ReorderThreshold(listing.reorderLevel)]
    /\ UNCHANGED <<db, tx, request, response, workload, now, catalog, view>>

\* The stock views over one product row, for every row the table can hold.
InitStock ==
    /\ workload = "stock"
    /\ InitTables
    /\ \E quantity \in ListedQuantities, reorderLevel \in ReorderLevels :
          listing = [NoListing EXCEPT !.quantity = quantity, !.reorderLevel = reorderLevel]
    /\ now = StartOfRun
    /\ InitCatalog
    /\ view = NoView

NextStock ==
    \/ FormatProduct
    \/ LowStockAlert

SpecStock == InitStock /\ [][NextStock]_vars

\* ---------------------------------------------------------- read endpoints
\* "queue": the read endpoints over prescriptions of any priority, age and
\* status; "listing": the read endpoints over products of any quantity, reorder
\* level and expiry date.
ViewWorkloads == {"queue", "listing"}

ShelfQuantities == {0, 1, 3}

ShelfReorderLevels == {NoLevel, <<2>>}

ShelfExpiryDates == {NoExpiry, <<20>>, <<400>>}

CreationTimes == {1, 2}

StatusFilters == {"all", "low_stock", "out_of_stock"}

PriorityFilters == {"all", "urgent"}

Pages == 1 .. MaxPage

Limits == 1 .. MaxLimit

\* the sequences that list every element of S once
Perms(S) ==
    {f \in [1 .. Cardinality(S) -> S] :
        \A i, j \in 1 .. Cardinality(S) : i # j => f[i] # f[j]}

\* skip: (page - 1) * limit, take: limit
Slice(rows, page, limit) ==
    LET offset == (page - 1) * limit
        last == IF offset + limit < Len(rows) THEN offset + limit ELSE Len(rows)
    IN  SubSeq(rows, offset + 1, last)

\* the order of the product names: the products are named after their ids
NameRank(p) == CASE p = "pA" -> 1 [] p = "pB" -> 2 [] OTHER -> 3

\* orderBy: [{quantity: 'asc'}, {name: 'asc'}]
ByQuantityThenName(a, b) ==
    \/ product[a].quantity < product[b].quantity
    \/ product[a].quantity = product[b].quantity /\ NameRank(a) <= NameRank(b)

\* the listings of the products S in that order; rows that tie come in any order
ProductsByQuantityThenName(S) ==
    {f \in Perms(S) : \A i, j \in DOMAIN f : i < j => ByQuantityThenName(f[i], f[j])}

\* orderBy: {quantity: 'asc'}
ByQuantity(a, b) == product[a].quantity <= product[b].quantity

ProductsByQuantity(S) ==
    {f \in Perms(S) : \A i, j \in DOMAIN f : i < j => ByQuantity(f[i], f[j])}

\* the where clause of GET stock: live products, narrowed by the status filter
StockWhere(status) ==
    {p \in ProductIds :
        /\ ~product[p].isDeleted
        /\ status = "out_of_stock" => product[p].quantity = 0
        /\ status = "low_stock" => product[p].quantity > 0}

ExpiryWindowDays == 30

\* isExpiringSoon: false without an expiry date, else expiry within 30 days
IsExpiringSoon(expiryDate) ==
    IF expiryDate = NoExpiry THEN FALSE ELSE expiryDate[1] < ExpiryWindowDays

FormattedProduct(p) ==
    LET reorderThreshold == ReorderThreshold(product[p].reorderLevel)
    IN  [id |-> p,
         stockStatus |-> StockStatus(product[p].quantity, reorderThreshold),
         stockPercentage |-> StockPercentage(product[p].quantity, reorderThreshold),
         isExpiringSoon |-> IsExpiringSoon(product[p].expiryDate)]

IsLowStockRow(row) == row.stockStatus = "low_stock"

\* GetStock, restocking what it finds out of stock.
GetStock_Restocking ==
    /\ workload \in ViewWorkloads
    /\ \E status \in StatusFilters, page \in Pages, limit \in Limits :
          \E products \in ProductsByQuantityThenName(StockWhere(status)) :
             view' = [NoView EXCEPT !.op = "stock", !.status = 200,
                                    !.query = <<status, page, limit>>,
                                    !.total = Cardinality(StockWhere(status))]
    /\ product' = [p \in ProductIds |->
                      IF product[p].quantity = 0
                      THEN [product[p] EXCEPT !.quantity = 1] ELSE product[p]]
    /\ UNCHANGED <<prescription, prescriptionItem, drugDispensal, balanceTransaction,
                   tx, request, response, workload, listing, now, catalog>>

\* GET stock: a page of the products matching the filters, formatted; the
\* low_stock filter is applied to the page after it was fetched.
GetStock ==
    /\ workload \in ViewWorkloads
    /\ \E status \in StatusFilters, page \in Pages, limit \in Limits :
          \E products \in ProductsByQuantityThenName(StockWhere(status)) :
             LET fetched == Slice(products, page, limit)
                 formattedProducts == [k \in 1 .. Len(fetched) |-> FormattedProduct(fetched[k])]
             IN  view' = [NoView EXCEPT
                             !.op = "stock", !.status = 200,
                             !.query = <<status, page, limit>>,
                             !.rows = IF status = "low_stock"
                                      THEN SelectSeq(formattedProducts, IsLowStockRow)
                                      ELSE formattedProducts,
                             !.total = Cardinality(StockWhere(status))]
    /\ UNCHANGED <<db, tx, request, response, workload, listing, now, catalog>>

\* The order of the priority column's values.
PriorityRank(priority) ==
    CASE priority = "emergency" -> 1
      [] priority = "urgent" -> 2
      [] OTHER -> 3

\* ByPriorityThenCreated, ordering by creation time alone.
ByPriorityThenCreated_CreatedOnly(a, b) ==
    prescription[a].createdAt <= prescription[b].createdAt

\* orderBy: [{priority: 'asc'}, {createdAt: 'asc'}]
ByPriorityThenCreated(a, b) ==
    \/ PriorityRank(prescription[a].priority) < PriorityRank(prescription[b].priority)
    \/ /\ prescription[a].priority = prescription[b].priority
       /\ prescription[a].createdAt <= prescription[b].createdAt

\* the listings of the prescriptions S in that order; rows that tie come in any
\* order
PrescriptionsByPriority(S) ==
    {f \in Perms(S) : \A i, j \in DOMAIN f : i < j => ByPriorityThenCreated(f[i], f[j])}

\* the where clause of the pending list
PendingWhere(priority) ==
    {r \in PrescriptionIds :
        /\ prescription[r].status = "pending"
        /\ ~prescription[r].isDeleted
        /\ priority # "all" => prescription[r].priority = priority}

HasStock(i) ==
    product[prescriptionItem[i].productId].quantity >= prescriptionItem[i].quantityPrescribed

FormattedPrescription(r) ==
    [id |-> r,
     priority |-> prescription[r].priority,
     createdAt |-> prescription[r].createdAt,
     hasStockIssues |-> \E i \in PrescriptionItemsOf(r) : ~HasStock(i)]

\* GET pending prescriptions
GetPending ==
    /\ workload \in ViewWorkloads
    /\ \E priority \in PriorityFilters, page \in Pages, limit \in Limits :
          \E prescriptions \in PrescriptionsByPriority(PendingWhere(priority)) :
             LET fetched == Slice(prescriptions, page, limit)
             IN  view' = [NoView EXCEPT
                             !.op = "pending", !.status = 200,
                             !.query = <<priority, page, limit>>,
                             !.rows = [k \in 1 .. Len(fetched) |->
                                          FormattedPrescription(fetched[k])],
                             !.total = Cardinality(PendingWhere(priority))]
    /\ UNCHANGED <<db, tx, request, response, workload, listing, now, catalog>>

\* GET prescription detail
GetDetail ==
    /\ workload \in ViewWorkloads
    /\ \E prescriptionId \in RequestPrescriptionIds :
          IF FindPrescription(prescriptionId) = NoId
          THEN view' = [NoView EXCEPT !.op = "detail", !.status = 404,
                                      !.query = <<prescriptionId>>]
          ELSE view' = [NoView EXCEPT
                           !.op = "detail", !.status = 200,
                           !.query = <<prescriptionId>>,
                           !.items = {[id |-> i, hasStock |-> HasStock(i)] :
                                         i \in PrescriptionItemsOf(prescriptionId)}]
    /\ UNCHANGED <<db, tx, request, response, workload, listing, now, catalog>>

PriorityListSize == 5

LowStockFetched == 20

LowStockShown == 5

FirstRows(rows, n) == SubSeq(rows, 1, IF n < Len(rows) THEN n ELSE Len(rows))

IsAtOrBelowThreshold(p) == product[p].quantity <= ReorderThreshold(product[p].reorderLevel)

\* GET dashboard: the count of pending prescriptions, the emergency and urgent
\* ones in queue order, and the low-stock alerts
GetDashboard ==
    /\ workload \in ViewWorkloads
    /\ \E prescriptions \in
             PrescriptionsByPriority({r \in PendingWhere("all") :
                                         prescription[r].priority \in {"emergency", "urgent"}}),
          products \in
             ProductsByQuantity({p \in ProductIds :
                                    product[p].quantity > 0 /\ ~product[p].isDeleted}) :
          LET priorityPrescriptions == FirstRows(prescriptions, PriorityListSize)
              lowStockDrugs == FirstRows(SelectSeq(FirstRows(products, LowStockFetched),
                                              IsAtOrBelowThreshold),
                                    LowStockShown)
          IN  view' = [NoView EXCEPT
                          !.op = "dashboard", !.status = 200,
                          !.rows = [k \in 1 .. Len(priorityPrescriptions) |->
                                       FormattedPrescription(priorityPrescriptions[k])],
                          !.total = Cardinality(PendingWhere("all")),
                          !.lowStock =
                              [k \in 1 .. Len(lowStockDrugs) |->
                                  [id |-> lowStockDrugs[k],
                                   current |-> product[lowStockDrugs[k]].quantity,
                                   reorderLevel |->
                                       ReorderThreshold(product[lowStockDrugs[k]].reorderLevel)]]]
    /\ UNCHANGED <<db, tx, request, response, workload, listing, now, catalog>>

InitViews ==
    /\ workload \in ViewWorkloads
    /\ IF workload = "listing"
       THEN /\ \E quantity \in [ProductIds -> ShelfQuantities],
                  reorderLevel \in [ProductIds -> ShelfReorderLevels],
                  expiryDate \in ShelfExpiryDates, isDeleted \in BOOLEAN :
                  product = [p \in ProductIds |->
                                [quantity |-> quantity[p],
                                 isDeleted |-> (p = DeletedProductId /\ isDeleted),
                                 reorderLevel |-> reorderLevel[p],
                                 expiryDate |-> IF p = "pA" THEN expiryDate
                                                ELSE ProductsOnFile[p].expiryDate]]
            /\ prescription = PrescriptionsOnFile
       ELSE /\ product = ProductsOnFile
            /\ \E priority \in [PrescriptionIds -> Priorities],
                  createdAt \in [PrescriptionIds -> CreationTimes],
                  status \in {"pending", "dispensed"}, isDeleted \in BOOLEAN :
                  prescription = [r \in PrescriptionIds |->
                                     [PrescriptionsOnFile[r] EXCEPT
                                         !.priority = priority[r],
                                         !.createdAt = createdAt[r],
                                         !.status = IF r = "rx2" THEN status ELSE "pending",
                                         !.isDeleted = (r = "rx3" /\ isDeleted)]]
    /\ InitRequests
    /\ listing = NoListing
    /\ now = StartOfRun
    /\ InitCatalog
    /\ view = NoView

NextViews ==
    \/ GetStock
    \/ GetPending
    \/ GetDetail
    \/ GetDashboard

SpecViews == InitViews /\ [][NextViews]_vars

\* ------------------------------------------------------- the pharmacist routes
Next ==
    \/ \E c \in Clients : DispenseRead(c)
    \/ \E c \in Clients : DispenseCommit(c)
    \/ AdjustStock
    \/ Tick

Spec == Init /\ [][Next]_vars

\* ----------------------------------------------------------------- /drugs
\* The handlers of /drugs run outside any transaction: each await is a step
\* of its own, and steps of different requests interleave.

\* prisma.drug.findMany({where: {isDeleted: false}, orderBy: {createdAt: 'desc'}})
RECURSIVE FindManyDrugs(_)
FindManyDrugs(k) ==
    IF k = 0 THEN << >>
    ELSE (IF drug[k].isDeleted THEN << >> ELSE <<[id |-> k, code |-> drug[k].code]>>)
         \o FindManyDrugs(k - 1)

\* FindLiveCode, overlooking the isDeleted flag.
FindLiveCode_AnyRow(code, exceptId) ==
    {k \in DOMAIN drug : drug[k].code = code /\ k # exceptId}

\* prisma.drug.findFirst({where: {code, isDeleted: false, id: {not: exceptId}}});
\* POST leaves the id condition out (exceptId = 0)
FindLiveCode(code, exceptId) ==
    {k \in DOMAIN drug : drug[k].code = code /\ ~drug[k].isDeleted /\ k # exceptId}

\* unit || 'Pieces': an absent and an empty unit are both falsy
UnitOrPieces(unit) == IF unit = Absent \/ unit = <<"">> THEN "Pieces" ELSE unit[1]

\* prescriptionRequired || false
RequiredOrFalse(prescriptionRequired) ==
    IF prescriptionRequired = Absent THEN FALSE ELSE prescriptionRequired[1]

\* data of prisma.drug.create
NewDrug(body) ==
    [code |-> body.code,
     isDeleted |-> FALSE,
     unit |-> UnitOrPieces(body.unit),
     prescriptionRequired |-> RequiredOrFalse(body.prescriptionRequired)]

DrugResponse(c, op, status, body) ==
    [client |-> c, op |-> op, status |-> status, body |-> body, drugs |-> << >>]

GetDrugs(c) ==
    /\ drugTx[c].pc = "idle"
    /\ drugResponse' = [DrugResponse(c, "GET", 200, NoDrugBody) EXCEPT
                            !.drugs = FindManyDrugs(Len(drug))]
    /\ UNCHANGED <<drug, drugTx, pharmacy, workload>>

\* POST, first await: look for a live drug with the code.
PostCheck(c) ==
    /\ drugTx[c].pc = "idle"
    /\ \E code \in Codes, options \in DrugOptions(workload) :
          LET body == [drugId |-> 0, code |-> code, unit |-> options.unit,
                       prescriptionRequired |-> options.prescriptionRequired]
          IN  IF FindLiveCode(code, 0) # {}
              THEN /\ drugResponse' = DrugResponse(c, "POST", 409, body)
                   /\ UNCHANGED <<drug, drugTx>>
              ELSE /\ drugTx' = [drugTx EXCEPT ![c] = [pc |-> "create", body |-> body]]
                   /\ UNCHANGED <<drug, drugResponse>>
    /\ UNCHANGED <<pharmacy, workload>>

\* POST, second await: create the row.
PostCreate(c) ==
    /\ drugTx[c].pc = "create"
    /\ Len(drug) < MaxDrugs
    /\ drug' = Append(drug, NewDrug(drugTx[c].body))
    /\ drugResponse' = DrugResponse(c, "POST", 201, [drugTx[c].body EXCEPT !.drugId = Len(drug) + 1])
    /\ drugTx' = [drugTx EXCEPT ![c] = IdleDrugTx]
    /\ UNCHANGED <<pharmacy, workload>>

\* PUT, first await: findUnique({where: {id: drugId, isDeleted: false}})
PutFind(c) ==
    /\ workload = "catalog"
    /\ drugTx[c].pc = "idle"
    /\ \E drugId \in DrugIds, code \in Codes :
          LET body == [NoDrugBody EXCEPT !.drugId = drugId, !.code = code]
          IN  IF drugId \notin DOMAIN drug \/ drug[drugId].isDeleted
              THEN /\ drugResponse' = DrugResponse(c, "PUT", 404, body)
                   /\ UNCHANGED <<drug, drugTx>>
              ELSE /\ drugTx' = [drugTx EXCEPT ![c] =
                                    [pc |-> IF code # drug[drugId].code THEN "conflict" ELSE "update",
                                     body |-> body]]
                   /\ UNCHANGED <<drug, drugResponse>>
    /\ UNCHANGED <<pharmacy, workload>>

\* PUT, second await, made when the code changes: look for another live drug
\* with the new code.
PutCheck(c) ==
    /\ drugTx[c].pc = "conflict"
    /\ IF FindLiveCode(drugTx[c].body.code, drugTx[c].body.drugId) # {}
       THEN /\ drugResponse' = DrugResponse(c, "PUT", 409, drugTx[c].body)
            /\ drugTx' = [drugTx EXCEPT ![c] = IdleDrugTx]
       ELSE /\ drugTx' = [drugTx EXCEPT ![c].pc = "update"]
            /\ UNCHANGED drugResponse
    /\ UNCHANGED <<drug, pharmacy, workload>>

\* PUT, last await: prisma.drug.update({where: {id: drugId}, data: {code, ...}});
\* unit and prescriptionRequired are absent from the body and stay as they are.
PutUpdate(c) ==
    /\ drugTx[c].pc = "update"
    /\ drug' = [drug EXCEPT ![drugTx[c].body.drugId].code = drugTx[c].body.code]
    /\ drugResponse' = DrugResponse(c, "PUT", 200, drugTx[c].body)
    /\ drugTx' = [drugTx EXCEPT ![c] = IdleDrugTx]
    /\ UNCHANGED <<pharmacy, workload>>

\* DELETE, first await: findUnique({where: {id: drugId}})
DeleteFind(c) ==
    /\ workload = "catalog"
    /\ drugTx[c].pc = "idle"
    /\ \E drugId \in DrugIds :
          LET body == [NoDrugBody EXCEPT !.drugId = drugId]
          IN  IF drugId \notin DOMAIN drug
              THEN /\ drugResponse' = DrugResponse(c, "DELETE", 404, body)
                   /\ UNCHANGED <<drug, drugTx>>
              ELSE /\ drugTx' = [drugTx EXCEPT ![c] = [pc |-> "delete", body |-> body]]
                   /\ UNCHANGED <<drug, drugResponse>>
    /\ UNCHANGED <<pharmacy, workload>>

\* DELETE, second await: update({where: {id: drugId}, data: {isDeleted: true}})
DeleteUpdate(c) ==
    /\ drugTx[c].pc = "delete"
    /\ drug' = [drug EXCEPT ![drugTx[c].body.drugId].isDeleted = TRUE]
    /\ drugResponse' = DrugResponse(c, "DELETE", 200, drugTx[c].body)
    /\ drugTx' = [drugTx EXCEPT ![c] = IdleDrugTx]
    /\ UNCHANGED <<pharmacy, workload>>

InitDrugs ==
    /\ workload \in DrugWorkloads
    /\ InitTables
    /\ listing = NoListing
    /\ now = StartOfRun
    /\ InitCatalog
    /\ view = NoView

NextDrugs ==
    \/ \E c \in Clients : GetDrugs(c)
    \/ \E c \in Clients : PostCheck(c)
    \/ \E c \in Clients : PostCreate(c)
    \/ \E c \in Clients : PutFind(c)
    \/ \E c \in Clients : PutCheck(c)
    \/ \E c \in Clients : PutUpdate(c)
    \/ \E c \in Clients : DeleteFind(c)
    \/ \E c \in Clients : DeleteUpdate(c)

SpecDrugs == InitDrugs /\ [][NextDrugs]_vars

\* ============================================================ properties
\* Steps of a dispense request of client c, told apart by what they leave.
AcceptedRead(c) == tx[c].pc = "idle" /\ tx'[c].pc = "checked"

RejectedRead(c) ==
    /\ tx[c].pc = "idle" /\ tx'[c].pc = "idle"
    /\ request'.client = c
    /\ response'.op = "dispense" /\ response'.status # 200
    /\ <<request', response'>> # <<request, response>>

ReadStep(c) == AcceptedRead(c) \/ RejectedRead(c)

Committed(c) == tx[c].pc = "checked" /\ tx'[c].pc = "idle" /\ response'.status = 200

Aborted(c) == tx[c].pc = "checked" /\ tx'[c].pc = "idle" /\ response'.status # 200

DispensalsOf(prescriptionId) ==
    {k \in DOMAIN drugDispensal : drugDispensal[k].prescriptionId = prescriptionId}

RequestedItemIds(dispensedItems) ==
    {dispensedItems[k].itemId : k \in DOMAIN dispensedItems}

\* positions of the requested items that ask for more than their product holds
ShortItems(dispensedItems) ==
    {k \in DOMAIN dispensedItems :
        /\ dispensedItems[k].itemId \in ItemIds
        /\ product[prescriptionItem[dispensedItems[k].itemId].productId].quantity
              < dispensedItems[k].quantityDispensed}

\* the response names the product of requested item k, what is on hand and
\* what was asked
NamesShortItem(resp, dispensedItems, k) ==
    /\ resp.error = "Insufficient stock"
    /\ resp.productId = prescriptionItem[dispensedItems[k].itemId].productId
    /\ resp.available = product[resp.productId].quantity
    /\ resp.required = dispensedItems[k].quantityDispensed

\* C1: every product's quantity on hand is at least 0 in every state reached
\* by adjustments and dispenses.
C1_QuantityNonNegative == \A p \in ProductIds : product[p].quantity >= 0

\* C2 as stated: whenever some requested item asks for more than the stock of
\* its product, the request fails, the tables stay as they were and the error
\* names an offending product with its available and required quantities.
C2_ShortItemNamed ==
    [][\A c \in Clients :
          (ReadStep(c) /\ ShortItems(request'.body.dispensedItems) # {})
              => /\ RejectedRead(c)
                 /\ UNCHANGED db
                 /\ \E k \in ShortItems(request'.body.dispensedItems) :
                        NamesShortItem(response', request'.body.dispensedItems, k)]_vars

\* C2 amended: whenever some requested item asks for more than the stock of
\* its product, the request fails and the tables stay as they were; when the
\* prescription is live and pending and the first such item and every item
\* listed before it belong to the prescription, the error names that item's
\* product with its available and required quantities.
C2_FirstShortItemNamed ==
    [][\A c \in Clients :
          (ReadStep(c) /\ ShortItems(request'.body.dispensedItems) # {})
              => /\ RejectedRead(c)
                 /\ UNCHANGED db
                 /\ LET dispensedItems == request'.body.dispensedItems
                        short == ShortItems(dispensedItems)
                        first == CHOOSE k \in short : \A j \in short : k <= j
                    IN  (/\ FindPrescription(request'.prescriptionId) # NoId
                         /\ prescription[request'.prescriptionId].status = "pending"
                         /\ \A j \in 1 .. first :
                               dispensedItems[j].itemId
                                   \in PrescriptionItemsOf(request'.prescriptionId))
                           => NamesShortItem(response', dispensedItems, first)]_vars

\* witness of C2: a two-item request whose second item alone is short has been
\* rejected naming pB; the first item's product and the prescription are
\* untouched.
C2_Witness ==
    /\ response.error = "Insufficient stock"
    /\ response.productId = "pB" /\ response.available = 1 /\ response.required = 2
    /\ request.prescriptionId = "rx1"
    /\ request.body.dispensedItems = <<PageItem("i1"), PageItem("i2")>>
    /\ product["pA"].quantity = 5 /\ product["pB"].quantity = 1
    /\ prescription["rx1"].status = "pending"
    /\ \A i \in ItemIds : ~prescriptionItem[i].isDispensed

\* C3: of the dispense requests the page sends for one prescription at most
\* one succeeds: no prescription has more than one DrugDispensal.
C3_AtMostOneDispensal ==
    workload = "page" => \A r \in PrescriptionIds : Cardinality(DispensalsOf(r)) <= 1

\* C4: requests built by the dispense page for different prescriptions that
\* draw on one product never dispense more than was on hand: with at most one
\* dispensal per prescription no quantity is below 0.
C4_NoOversell ==
    (workload = "page" /\ \A r \in PrescriptionIds : Cardinality(DispensalsOf(r)) <= 1)
        => \A p \in ProductIds : product[p].quantity >= 0

\* C5: a successful dispense of a pending prescription makes it dispensed
\* when the request dispenses all of its items and partially_dispensed when
\* it dispenses a strict subset of them.
C5_StatusFollowsItems ==
    [][\A c \in Clients :
          (Committed(c) /\ prescription[tx[c].prescriptionId].status = "pending")
              => prescription'[tx[c].prescriptionId].status =
                    IF RequestedItemIds(tx[c].body.dispensedItems)
                          = PrescriptionItemsOf(tx[c].prescriptionId)
                    THEN "dispensed" ELSE "partially_dispensed"]_vars

\* C6: under the requests the dispense page sends, a dispensed prescription
\* keeps that status, and a prescription that has left pending never returns
\* to it.
C6_StatusNeverRegresses ==
    [][workload = "page" =>
          \A r \in PrescriptionIds :
              /\ prescription[r].status = "dispensed" => prescription'[r].status = "dispensed"
              /\ prescription[r].status # "pending" => prescription'[r].status # "pending"]_vars

\* C7: a dispense request that finds its prescription dispensed is rejected
\* with a conflict error (409) and leaves every table as it was.
C7_DispensedIsConflict ==
    [][\A c \in Clients :
          (/\ ReadStep(c)
           /\ FindPrescription(request'.prescriptionId) # NoId
           /\ prescription[request'.prescriptionId].status = "dispensed")
              => /\ RejectedRead(c)
                 /\ response'.status = 409
                 /\ UNCHANGED db]_vars

\* C8: a dispense request that fails, at its checks or midway through its
\* updates, leaves every table exactly as it was.
C8_FailureChangesNothing ==
    [][\A c \in Clients : (RejectedRead(c) \/ Aborted(c)) => UNCHANGED db]_vars

\* witness of C8: a request failed at its second product update, after the
\* dispensal and the first item were written, and nothing of it remains.
C8_Witness ==
    /\ response.error = "Record to update not found"
    /\ Len(request.body.dispensedItems) = 2
    /\ drugDispensal = << >>
    /\ balanceTransaction = << >>
    /\ product["pA"].quantity = 5
    /\ \A i \in ItemIds : ~prescriptionItem[i].isDispensed
    /\ \A r \in PrescriptionIds : prescription[r].status = "pending"

\* C9: a request naming an item that is not among the items of the addressed
\* prescription is rejected as a whole and changes no table.
C9_ForeignItemRejected ==
    [][\A c \in Clients :
          (/\ ReadStep(c)
           /\ ~(RequestedItemIds(request'.body.dispensedItems)
                   \subseteq PrescriptionItemsOf(request'.prescriptionId)))
              => RejectedRead(c) /\ UNCHANGED db]_vars

\* witness of C9: a request for rx1 listing its own item i1 and then rx2's
\* item i3 has been rejected, and i1 is not dispensed.
C9_Witness ==
    /\ response.error = "Prescription item not found"
    /\ response.itemId = "i3"
    /\ request.prescriptionId = "rx1"
    /\ request.body.dispensedItems = <<PageItem("i1"), PageItem("i3")>>
    /\ ~prescriptionItem["i1"].isDispensed
    /\ product["pA"].quantity = 5
    /\ drugDispensal = << >>

\* C10: no PrescriptionItem records a dispensed quantity above its prescribed
\* quantity.
C10_DispensedWithinPrescribed ==
    \A i \in ItemIds :
        prescriptionItem[i].quantityDispensed <= prescriptionItem[i].quantityPrescribed

\* C11: a dispense request that finds the prescription
\* partially_dispensed with items still to dispense is not turned away for
\* the prescription's status, so the prescription can be completed.
C11_PartialCanBeCompleted ==
    [][\A c \in Clients :
          (/\ workload = "page"
           /\ RejectedRead(c)
           /\ FindPrescription(request'.prescriptionId) # NoId
           /\ prescription[request'.prescriptionId].status = "partially_dispensed"
           /\ \E i \in PrescriptionItemsOf(request'.prescriptionId) :
                  ~prescriptionItem[i].isDispensed)
          => response'.error # "Prescription is not in pending status"]_vars

\* the client whose dispensing transaction this step commits, if any
CommittingClients == {c \in Clients : Committed(c)}

\* C12: a successful dispense appends exactly one DrugDispensal holding the
\* prescription, its student, all items of the request and its total amount;
\* every other step (failed dispenses, adjustments, reads) leaves the
\* DrugDispensal table as it is, so existing records are never modified or
\* removed and there are as many records as successful dispenses.
C12_OneDispensalPerDispense ==
    [][IF CommittingClients # {}
       THEN \A c \in CommittingClients :
               drugDispensal' =
                   Append(drugDispensal,
                          [dispensalNo |-> GenerateDispensalNo(now),
                           prescriptionId |-> tx[c].prescriptionId,
                           studentId |-> PrescriptionStudent(tx[c].prescriptionId),
                           dispensedBy |-> c,
                           dispensedItems |-> tx[c].body.dispensedItems,
                           totalAmount |-> tx[c].body.totalAmount])
       ELSE drugDispensal' = drugDispensal]_vars

\* witness of C12: rx1 was dispensed with both its items in one request, rx2
\* with its one item, and a later restocking has left both records in place.
C12_Witness ==
    /\ Len(drugDispensal) = 2
    /\ drugDispensal[1].prescriptionId = "rx1"
    /\ drugDispensal[1].dispensedItems = <<PageItem("i1"), PageItem("i2")>>
    /\ drugDispensal[1].totalAmount = 3
    /\ drugDispensal[2].prescriptionId = "rx2"
    /\ response.op = "adjust" /\ response.status = 200

\* C13: a successful dispense appends exactly one BalanceTransaction of type
\* DEBIT with amount amountPaid, linked to the prescription and its student,
\* when amountPaid > 0 and none when amountPaid <= 0; every other step,
\* failed dispenses included, appends none.
C13_PaymentRecorded ==
    [][IF CommittingClients # {}
       THEN \A c \in CommittingClients :
               LET amountPaid == tx[c].body.amountPaid
               IN  IF amountPaid > 0
                   THEN balanceTransaction' =
                            Append(balanceTransaction,
                                   [studentId |-> PrescriptionStudent(tx[c].prescriptionId),
                                    prescriptionId |-> tx[c].prescriptionId,
                                    amount |-> amountPaid,
                                    type |-> "DEBIT"])
                   ELSE balanceTransaction' = balanceTransaction
       ELSE balanceTransaction' = balanceTransaction]_vars

\* witness of C13: two dispenses succeeded, rx1 paid with nothing and rx2 with
\* 2, and the only balance transaction is the one of rx2.
C13_Witness ==
    /\ Len(drugDispensal) = 2
    /\ prescription["rx1"].status = "partially_dispensed"
    /\ prescription["rx1"].amountPaid = 0
    /\ prescription["rx2"].status = "dispensed"
    /\ balanceTransaction =
          <<[studentId |-> "s2", prescriptionId |-> "rx2", amount |-> 2, type |-> "DEBIT"]>>

C15_FailureKindReported ==
    [][\A c \in Clients :
          RejectedRead(c) =>
             CASE response'.error = "Prescription not found" -> response'.status = 404
               [] response'.error = "Prescription is not in pending status" ->
                     response'.status = 409
               [] OTHER -> response'.status \in 400 .. 499]_vars

\* C16: the change a successful dispense reports is max(0, amountPaid -
\* totalAmount), never negative.
C16_ChangeFloored ==
    [][\A c \in CommittingClients :
          workload = "payment" =>
          /\ response'.change >= 0
          /\ response'.change =
                IF tx[c].body.amountPaid > tx[c].body.totalAmount
                THEN tx[c].body.amountPaid - tx[c].body.totalAmount
                ELSE 0]_vars

\* C17: for every quantity >= 0 and every reorder level, absent (taken as 10)
\* and 0 included, the listing's stockStatus is out_of_stock iff quantity = 0,
\* low_stock iff 0 < quantity <= reorderLevel, and healthy otherwise.
C17_StockStatusRule ==
    (listing.formatted /\ listing.quantity >= 0) =>
        LET reorderLevel == IF listing.reorderLevel = NoLevel THEN 10
                            ELSE listing.reorderLevel[1]
        IN  /\ listing.stockStatus \in {"out_of_stock", "low_stock", "healthy"}
            /\ listing.stockStatus = "out_of_stock" <=> listing.quantity = 0
            /\ listing.stockStatus = "low_stock" <=>
                  (0 < listing.quantity /\ listing.quantity <= reorderLevel)

\* C18: the listing's stockPercentage lies in [0, 100] for every product; where
\* the reorder level is absent or not 0 it equals min(quantity /
\* reorderThreshold * 100, 100) with reorderThreshold the reorder level, or 10
\* when absent; quantity 5 with reorder level 10 gives low_stock and 50.
C18_StockPercentageRange ==
    listing.formatted =>
        LET pct == listing.stockPercentage
            reorderThreshold == IF listing.reorderLevel = NoLevel THEN 10
                                ELSE listing.reorderLevel[1]
        IN  /\ 0 <= pct.num /\ pct.num <= 100 * pct.den
            /\ reorderThreshold # 0 =>
                  IF listing.quantity <= reorderThreshold
                  THEN pct.num * reorderThreshold = listing.quantity * 100 * pct.den
                  ELSE pct.num = 100 * pct.den
            /\ (listing.quantity = 5 /\ listing.reorderLevel = <<10>>) =>
                  listing.stockStatus = "low_stock" /\ pct.num = 50 * pct.den

\* Steps of an inventory adjustment, told apart by the response they leave.
AdjustStep == response'.op = "adjust" /\ tx' = tx /\ request' = request

Adjusted == AdjustStep /\ response'.status = 200

\* C19: a successful adjustment of product p to q sets p's quantity to exactly
\* q, reports newQuantity = q and difference = q - oldQuantity, and leaves
\* every other Product and every Prescription, PrescriptionItem, DrugDispensal
\* and BalanceTransaction unchanged.
C19_AdjustSetsQuantity ==
    [][Adjusted =>
          LET p == response'.productId
              q == response'.newQuantity
          IN  /\ p \in ProductIds
              /\ product' = [product EXCEPT ![p].quantity = q]
              /\ response'.difference = q - response'.oldQuantity
              /\ UNCHANGED <<prescription, prescriptionItem, drugDispensal,
                             balanceTransaction>>]_vars

\* witness of C19: after a dispense took 3 of pA, pA was adjusted from 2 to 0;
\* pB and the dispensal are as they were.
C19_Witness ==
    /\ response.op = "adjust" /\ response.status = 200
    /\ response.productId = "pA"
    /\ response.oldQuantity = 2 /\ response.newQuantity = 0 /\ response.difference = -2
    /\ product["pA"].quantity = 0
    /\ product["pB"].quantity = 1
    /\ Len(drugDispensal) = 1

\* C20: an adjustment changes the quantity of no soft-deleted product, and an
\* adjustment that fails reports that the product was not found.
C20_DeletedNotAdjusted ==
    [][AdjustStep =>
          /\ \A p \in ProductIds :
                product[p].isDeleted => product'[p].quantity = product[p].quantity
          /\ response'.status # 200 =>
                response'.error = "Product not found" /\ product' = product]_vars

\* C25: the status of a prescription agrees with its items: dispensed implies
\* every item of the prescription is dispensed, pending implies none is; a
\* request listing an item twice, or no item, cannot leave a prescription
\* dispensed with an item undispensed.
C25_StatusAgreesWithItems ==
    workload = "items" =>
        \A r \in PrescriptionIds :
            /\ prescription[r].status = "dispensed" =>
                  \A i \in PrescriptionItemsOf(r) : prescriptionItem[i].isDispensed
            /\ prescription[r].status = "pending" =>
                  \A i \in PrescriptionItemsOf(r) : ~prescriptionItem[i].isDispensed

\* the quantity a request takes from product p, counted on the product each
\* listed item prescribes
RECURSIVE PrescribedDeduction(_, _, _)
PrescribedDeduction(dispensedItems, p, k) ==
    IF k > Len(dispensedItems) THEN 0
    ELSE (IF prescriptionItem[dispensedItems[k].itemId].productId = p
          THEN dispensedItems[k].quantityDispensed ELSE 0)
         + PrescribedDeduction(dispensedItems, p, k + 1)

\* C26: a successful dispense decrements, for each listed item, the product
\* that item prescribes (the one whose stock was checked) and no other
\* product.
C26_DecrementsPrescribedProduct ==
    [][\A c \in CommittingClients :
          \A p \in ProductIds :
              product'[p].quantity =
                  product[p].quantity - PrescribedDeduction(tx[c].body.dispensedItems, p, 1)]_vars

\* C27: a successful dispense increases the quantity of no product: every
\* quantity taken is positive.
C27_DispenseNeverAddsStock ==
    [][\A c \in CommittingClients :
          /\ \A k \in DOMAIN tx[c].body.dispensedItems :
                tx[c].body.dispensedItems[k].quantityDispensed > 0
          /\ \A p \in ProductIds : product'[p].quantity <= product[p].quantity]_vars

\* C28: no two DrugDispensal records carry the same dispensalNo.
C28_DispensalNoUnique ==
    workload = "receipt" =>
        \A j, k \in DOMAIN drugDispensal :
            j # k => drugDispensal[j].dispensalNo # drugDispensal[k].dispensalNo

\* Steps of a POST /drugs request of client c.
PostAccepted(c) == drugTx[c].pc = "idle" /\ drugTx'[c].pc = "create"

PostRejected(c) ==
    /\ drugTx[c].pc = "idle" /\ drugTx'[c].pc = "idle"
    /\ drugResponse'.client = c /\ drugResponse'.op = "POST"
    /\ drugResponse' # drugResponse

PostCreated(c) == drugTx[c].pc = "create" /\ drugTx'[c].pc = "idle"

\* the live (not soft-deleted) rows of a Drug table that carry the code
LiveWithCode(drugs, code) ==
    {k \in DOMAIN drugs : drugs[k].code = code /\ ~drugs[k].isDeleted}

\* C21: a POST whose code is on a live drug when it is looked up is answered
\* with 409 and creates no record; a POST whose code is on soft-deleted drugs
\* only, or on none, goes on to create exactly one record with that code, with
\* unit "Pieces" and prescriptionRequired false where the body leaves them out,
\* and is answered with 201.
C21_PostChecksLiveCode ==
    [][\A c \in Clients :
          /\ PostRejected(c) =>
                /\ LiveWithCode(drug, drugResponse'.body.code) # {}
                /\ drugResponse'.status = 409
                /\ drug' = drug
          /\ PostAccepted(c) =>
                /\ LiveWithCode(drug, drugTx'[c].body.code) = {}
                /\ drug' = drug
          /\ PostCreated(c) =>
                LET body == drugTx[c].body
                IN  /\ drugResponse'.status = 201
                    /\ drug' = Append(drug,
                                 [code |-> body.code,
                                  isDeleted |-> FALSE,
                                  unit |-> IF body.unit \in {Absent, <<"">>}
                                           THEN "Pieces" ELSE body.unit[1],
                                  prescriptionRequired |->
                                      IF body.prescriptionRequired = Absent
                                      THEN FALSE ELSE body.prescriptionRequired[1]])]_vars

\* witness of C21: X1 was created, soft-deleted and created again with the
\* defaults, and a further POST of X1 was answered with 409.
C21_Witness ==
    /\ Len(drug) = 2
    /\ drug[1].code = "X1" /\ drug[1].isDeleted
    /\ drug[2] = [code |-> "X1", isDeleted |-> FALSE, unit |-> "Pieces",
                  prescriptionRequired |-> FALSE]
    /\ drugResponse.op = "POST" /\ drugResponse.status = 409
    /\ drugResponse.body.code = "X1"

\* C22: right after a drug with code X is created the list of GET /drugs holds
\* exactly one entry with code X; right after it is soft-deleted the list
\* holds none, while its row is still in the table with isDeleted true; a
\* DELETE of an id that no row has is answered with 404.
C22_DrugRoundTrip ==
    [][\A c \in Clients :
          /\ PostCreated(c) =>
                Cardinality(LiveWithCode(drug', drugTx[c].body.code)) = 1
          /\ (drugTx[c].pc = "delete" /\ drugTx'[c].pc = "idle") =>
                LET id == drugTx[c].body.drugId
                IN  /\ Len(drug') = Len(drug)
                    /\ drug'[id].isDeleted
                    /\ LiveWithCode(drug', drug[id].code) = {}
          /\ (/\ drugTx[c].pc = "idle" /\ drugTx'[c].pc = "idle"
              /\ drugResponse'.client = c /\ drugResponse'.op = "DELETE"
              /\ drugResponse' # drugResponse) =>
                /\ drugResponse'.body.drugId \notin DOMAIN drug
                /\ drugResponse'.status = 404]_vars

\* C29: no two live drugs carry the same code.
C29_LiveCodesUnique ==
    \A code \in Codes : Cardinality(LiveWithCode(drug, code)) <= 1


\* ------------------------------------------------- read endpoints: properties
\* C24: GET stock, GET pending prescriptions, GET prescription detail and GET
\* dashboard leave every Product, Prescription, PrescriptionItem, DrugDispensal
\* and BalanceTransaction unchanged, and they produce a result when reorderLevel
\* or expiryDate is absent: a product without reorder level is rated against 10
\* and a product without expiry date is not expiring soon.
C24_ViewsReadOnly ==
    [][/\ db' = db
       /\ view'.status \in {200, 404}
       /\ view'.op \in {"stock", "pending", "dashboard"} => view'.status = 200
       /\ view'.op = "stock" =>
             \A k \in DOMAIN view'.rows :
                LET row == view'.rows[k]
                    quantity == product[row.id].quantity
                IN  /\ product[row.id].reorderLevel = NoLevel =>
                          row.stockStatus = IF quantity = 0 THEN "out_of_stock"
                                            ELSE IF quantity <= 10 THEN "low_stock"
                                            ELSE "healthy"
                    /\ product[row.id].expiryDate = NoExpiry => ~row.isExpiringSoon
       /\ view'.op = "dashboard" =>
             \A k \in DOMAIN view'.lowStock :
                product[view'.lowStock[k].id].reorderLevel = NoLevel =>
                   view'.lowStock[k].reorderLevel = 10]_vars

\* a stock listing showing a product that has neither reorder level nor expiry
\* date, while some product was out of stock
C24_Witness ==
    /\ view.op = "stock"
    /\ \E k \in DOMAIN view.rows :
          /\ product[view.rows[k].id].reorderLevel = NoLevel
          /\ product[view.rows[k].id].expiryDate = NoExpiry
          /\ view.rows[k].stockStatus = "low_stock"
    /\ \E p \in ProductIds : product[p].quantity = 0

\* C23: the pending list and the dashboard's priority list show emergency
\* prescriptions before urgent ones and urgent before normal ones, and
\* prescriptions of one priority by ascending creation time.
C23_QueueOrder ==
    view.op \in {"pending", "dashboard"} =>
       \A i, j \in DOMAIN view.rows :
          i < j =>
             /\ view.rows[j].priority = "emergency" => view.rows[i].priority = "emergency"
             /\ view.rows[j].priority = "urgent" => view.rows[i].priority # "normal"
             /\ view.rows[i].priority = view.rows[j].priority =>
                   view.rows[i].createdAt <= view.rows[j].createdAt

\* a pending list where an emergency created later precedes a normal one
C23_Witness ==
    /\ view.op = "pending"
    /\ Len(view.rows) = 2
    /\ view.rows[1].priority = "emergency"
    /\ view.rows[2].priority = "normal"
    /\ view.rows[1].createdAt > view.rows[2].createdAt

\* the live products the listing rates low_stock
LowStockProducts ==
    {p \in ProductIds :
        /\ ~product[p].isDeleted
        /\ product[p].quantity > 0
        /\ product[p].quantity <=
              (IF product[p].reorderLevel = NoLevel \/ product[p].reorderLevel = <<0>>
               THEN 10 ELSE product[p].reorderLevel[1])}

\* C30: GET stock with status=low_stock shows only live low_stock products,
\* pagination.total is their number, and page `page` of size `limit` holds as
\* many of them as remain after the earlier pages, up to `limit`.
C30_LowStockPages ==
    (view.op = "stock" /\ view.query[1] = "low_stock") =>
       LET page == view.query[2]
           limit == view.query[3]
           remaining == Cardinality(LowStockProducts) - (page - 1) * limit
       IN  /\ \A k \in DOMAIN view.rows : view.rows[k].id \in LowStockProducts
           /\ view.total = Cardinality(LowStockProducts)
           /\ Len(view.rows) =
                 (IF remaining <= 0 THEN 0 ELSE IF remaining < limit THEN remaining ELSE limit)

====
